---- MODULE Spec2Model ----
(***************************************************************************)
(* A model of the bm25 package (bm25/bm25.go): the shared statistics       *)
(* engine Bm25Base: construction, accessors, IDF with its cache, and the   *)
(* scoring methods.                                                        *)
(*                                                                         *)
(* Strings are sequences of one-character strings, so that a tokenizer is  *)
(* something the model computes.  A float that the code obtains from       *)
(* math.Log is kept as the exact rational argument of the logarithm.       *)
(***************************************************************************)
EXTENDS Integers, Sequences, FiniteSets, TLC

(***************************************************************************)
(* Bounds and input pools                                                  *)
(***************************************************************************)
\* the longest corpus handed to NewBM25Base
MaxCorpus == 2

\* raw documents a caller may put in a corpus: "", "a", "b", "a a", "a b", "b "
RawDocs ==
  { <<>>, <<"a">>, <<"b">>, <<"a", " ", "a">>, <<"a", " ", "b">>, <<"b", " ">> }

\* tokenizer arguments: nil, strings.Split(s, " "), strings.Fields(s)
Tokenizers == {"nil", "split", "fields"}

\* the terms a caller asks IDF for: "", "a", "b", "c"
QueryTerms == { <<>>, <<"a">>, <<"b">>, <<"c">> }

RECURSIVE SeqsUpTo(_, _)
SeqsUpTo(S, n) ==
  IF n = 0 THEN { <<>> }
  ELSE LET shorter == SeqsUpTo(S, n - 1)
       IN  shorter \cup { Append(s, x) : s \in shorter, x \in S }

Corpora == SeqsUpTo(RawDocs, MaxCorpus)

(***************************************************************************)
(* Values                                                                  *)
(***************************************************************************)
NoErr == "nil"
ErrEmptyCorpus == "corpus cannot be empty"
ErrNilTokenizer == "tokenizer function cannot be nil"
ErrEmptyTokens == "tokenizer function returned an empty slice for document at index %d"
ErrEmptyTerm == "term cannot be empty"
ErrNotImplemented == "not implemented"

\* a nil *Bm25Base / a nil slice result
Nil == "nil"

\* float64(num)/float64(den), kept exact
Ratio(num, den) == [num |-> num, den |-> den]

\* math.Log(num/den), kept as the argument of the logarithm (den > 0)
LogOf(num, den) == [num |-> num, den |-> den]
\* the literal 0.0 (= math.Log(1))
Zero == LogOf(1, 1)
IsZero(v) == v.num = v.den
IsPositive(v) == v.num > v.den
IsNegative(v) == v.num < v.den

(***************************************************************************)
(* Tokenizers                                                              *)
(***************************************************************************)
RECURSIVE SplitRec(_, _)
SplitRec(s, acc) ==
  IF s = <<>> THEN acc
  ELSE IF Head(s) = " "
       THEN SplitRec(Tail(s), Append(acc, <<>>))
       ELSE SplitRec(Tail(s), [acc EXCEPT ![Len(acc)] = Append(@, Head(s))])

\* strings.Split(s, " "): n separators give n+1 tokens, empty ones included
Split(s) == SplitRec(s, << <<>> >>)

\* strings.Fields(s): the non-empty tokens between runs of white space
Fields(s) == SelectSeq(Split(s), LAMBDA t : t # <<>>)

Tokenize(tok, doc) == IF tok = "split" THEN Split(doc) ELSE Fields(doc)

(***************************************************************************)
(* NewBM25Base                                                             *)
(***************************************************************************)
\* variant: the check for an empty token slice left out
IsEmptySliceNever(tokens) == FALSE
\* len(tokens) == 0
IsEmptySlice(tokens) == Len(tokens) = 0

\* variant: the length recorded is the number of distinct tokens
AppendDocLengthDistinct(dl, tokens) ==
  Append(dl, Cardinality({ tokens[k] : k \in 1..Len(tokens) }))
\* base.docLengths = append(base.docLengths, len(tokens))
AppendDocLength(dl, tokens) == Append(dl, Len(tokens))

\* variant: every occurrence counted, seenTokens ignored
CountTokenEveryTime(tf, seen, token) ==
  IF token \in DOMAIN tf THEN [tf EXCEPT ![token] = @ + 1] ELSE tf @@ (token :> 1)
\* if _, seen := seenTokens[token]; !seen { base.termFreqs[token]++ }
CountToken(tf, seen, token) ==
  IF token \in seen THEN tf
  ELSE IF token \in DOMAIN tf THEN [tf EXCEPT ![token] = @ + 1]
       ELSE tf @@ (token :> 1)

RECURSIVE CountDoc(_, _, _, _)
\* the inner loop over the tokens of one document, from token k on
CountDoc(tokens, k, seen, tf) ==
  IF k > Len(tokens) THEN tf
  ELSE CountDoc(tokens, k + 1, seen \cup {tokens[k]}, CountToken(tf, seen, tokens[k]))

\* base.corpusSize = len(corpus)
CorpusSizeOf(corpusIn) == Len(corpusIn)

EmptyMap == [t \in {} |-> 0]

\* the least element of a non-empty set of integers
Lowest(S) == CHOOSE i \in S : \A j \in S : i <= j

RECURSIVE IndexLoop(_, _, _, _)
\* the loop over the documents, from document i (1-based here) on; st holds
\* base.corpus, base.docLengths, totalDocLen and base.termFreqs so far
IndexLoop(corpusIn, tok, i, st) ==
  IF i > Len(corpusIn) THEN [err |-> NoErr, errIndex |-> -1, st |-> st]
  ELSE LET tokens == Tokenize(tok, corpusIn[i])
       IN  IF IsEmptySlice(tokens)
           THEN [err |-> ErrEmptyTokens, errIndex |-> i - 1, st |-> st]
           ELSE IndexLoop(corpusIn, tok, i + 1,
                  [corpus      |-> Append(st.corpus, tokens),
                   docLengths  |-> AppendDocLength(st.docLengths, tokens),
                   totalDocLen |-> st.totalDocLen + Len(tokens),
                   termFreqs   |-> CountDoc(tokens, 1, {}, st.termFreqs)])

\* the result of NewBM25Base(corpus, tokenizer, logger): (base, err)
NewResult(corpusIn, tok) ==
  IF Len(corpusIn) = 0
  THEN [err |-> ErrEmptyCorpus, errIndex |-> -1, base |-> Nil]
  ELSE IF tok = "nil"
  THEN [err |-> ErrNilTokenizer, errIndex |-> -1, base |-> Nil]
  ELSE LET r == IndexLoop(corpusIn, tok, 1,
                  [corpus |-> <<>>, docLengths |-> <<>>, totalDocLen |-> 0,
                   termFreqs |-> EmptyMap])
       IN  IF r.err # NoErr
           THEN [err |-> r.err, errIndex |-> r.errIndex, base |-> Nil]
           ELSE [err |-> NoErr, errIndex |-> -1,
                 base |-> [corpus     |-> r.st.corpus,
                           corpusSize |-> CorpusSizeOf(corpusIn),
                           avgDocLen  |-> Ratio(r.st.totalDocLen, CorpusSizeOf(corpusIn)),
                           docLengths |-> r.st.docLengths,
                           termFreqs  |-> r.st.termFreqs,
                           idfCache   |-> EmptyMap]]

(***************************************************************************)
(* State                                                                   *)
(***************************************************************************)
VARIABLES
  corpusArg,     \* the corpus argument of NewBM25Base
  tokenizerArg,  \* the tokenizer argument of NewBM25Base
  pc,            \* "new": not yet constructed; "ready"; "failed"
  corpus,        \* Bm25Base.corpus
  corpusSize,    \* Bm25Base.corpusSize
  avgDocLen,     \* Bm25Base.avgDocLen
  docLengths,    \* Bm25Base.docLengths (the slice's backing array)
  termFreqs,     \* Bm25Base.termFreqs
  idfCache,      \* Bm25Base.idfCache
  shared,        \* the caller holds a slice returned by DocLengths()
  ret            \* what the last call returned

vars == << corpusArg, tokenizerArg, pc, corpus, corpusSize, avgDocLen,
           docLengths, termFreqs, idfCache, shared, ret >>

fields == << corpus, corpusSize, avgDocLen, docLengths, termFreqs, idfCache >>

InitFields ==
  /\ pc = "new"
  /\ corpus = <<>>
  /\ corpusSize = 0
  /\ avgDocLen = Ratio(0, 1)
  /\ docLengths = <<>>
  /\ termFreqs = EmptyMap
  /\ idfCache = EmptyMap
  /\ shared = FALSE
  /\ ret = [op |-> "none", arg |-> Nil, val |-> Nil, err |-> NoErr, errIndex |-> -1]

Init ==
  /\ corpusArg \in Corpora
  /\ tokenizerArg \in Tokenizers
  /\ InitFields

NewBM25Base ==
  /\ pc = "new"
  /\ LET r == NewResult(corpusArg, tokenizerArg)
     IN  /\ ret' = [op |-> "NewBM25Base", arg |-> Nil,
                    val |-> IF r.err = NoErr THEN "base" ELSE Nil,
                    err |-> r.err, errIndex |-> r.errIndex]
         /\ IF r.err = NoErr
            THEN /\ pc' = "ready"
                 /\ corpus' = r.base.corpus
                 /\ corpusSize' = r.base.corpusSize
                 /\ avgDocLen' = r.base.avgDocLen
                 /\ docLengths' = r.base.docLengths
                 /\ termFreqs' = r.base.termFreqs
                 /\ idfCache' = r.base.idfCache
            ELSE /\ pc' = "failed"
                 /\ UNCHANGED fields
  /\ UNCHANGED << corpusArg, tokenizerArg, shared >>

(***************************************************************************)
(* Accessors                                                               *)
(***************************************************************************)
Return(op, arg, val, err) ==
  [op |-> op, arg |-> arg, val |-> val, err |-> err, errIndex |-> -1]

CorpusSize ==
  /\ pc = "ready"
  /\ ret' = Return("CorpusSize", Nil, corpusSize, NoErr)
  /\ UNCHANGED << corpusArg, tokenizerArg, pc, fields, shared >>

AvgDocLen ==
  /\ pc = "ready"
  /\ ret' = Return("AvgDocLen", Nil, avgDocLen, NoErr)
  /\ UNCHANGED << corpusArg, tokenizerArg, pc, fields, shared >>

\* return b.docLengths: the returned slice shares the field's backing array
DocLengths ==
  /\ pc = "ready"
  /\ ret' = Return("DocLengths", Nil, docLengths, NoErr)
  /\ shared' = TRUE
  /\ UNCHANGED << corpusArg, tokenizerArg, pc, fields >>

(***************************************************************************)
(* IDF                                                                     *)
(***************************************************************************)
\* variant: the check for the empty term left out
IsEmptyTermNever(term) == FALSE
\* term == ""
IsEmptyTerm(term) == term = <<>>

\* variant: an unseen term gets the general formula with termFreq = 0
IDFValueNoClamp(freqs, term, size) ==
  LET termFreq == IF term \in DOMAIN freqs THEN freqs[term] ELSE 0
  IN  IF termFreq = size
      THEN LogOf(1, 2 * termFreq + 1)
      ELSE LogOf((2 * (size - termFreq) + 1) + (2 * termFreq + 1), 2 * termFreq + 1)

\* variant: the classical formula, without the + 1.0
IDFValueNoPlusOne(freqs, term, size) ==
  IF term \notin DOMAIN freqs THEN Zero
  ELSE LET termFreq == freqs[term]
       IN  IF termFreq = 0 THEN Zero
           ELSE IF termFreq = size
           THEN LogOf(1, 2 * termFreq + 1)
           ELSE LogOf(2 * (size - termFreq) + 1, 2 * termFreq + 1)

\* the value IDF computes on a cache miss, in halves:
\*   0.5 / (termFreq + 0.5)                                = 1 / (2 termFreq + 1)
\*   (size - termFreq + 0.5) / (termFreq + 0.5) + 1.0
\*        = ((2 (size - termFreq) + 1) + (2 termFreq + 1)) / (2 termFreq + 1)
IDFValue(freqs, term, size) ==
  IF term \notin DOMAIN freqs THEN Zero
  ELSE LET termFreq == freqs[term]
       IN  IF termFreq = 0 THEN Zero
           ELSE IF termFreq = size
           THEN LogOf(1, 2 * termFreq + 1)
           ELSE LogOf((2 * (size - termFreq) + 1) + (2 * termFreq + 1),
                      2 * termFreq + 1)

\* variant: the value is returned without being cached
CacheStoreNothing(cache, term, idf) == cache
\* b.idfCache[term] = idf
CacheStore(cache, term, idf) ==
  IF term \in DOMAIN cache THEN [cache EXCEPT ![term] = idf]
  ELSE cache @@ (term :> idf)

\* IDF(term) on an index with this cache, these term frequencies and this size:
\* the value and error returned, the cache afterwards, and whether the cache
\* answered
IDFResult(cache, freqs, size, term) ==
  IF IsEmptyTerm(term)
  THEN [val |-> Zero, err |-> ErrEmptyTerm, cache |-> cache, hit |-> FALSE]
  ELSE IF term \in DOMAIN cache
  THEN [val |-> cache[term], err |-> NoErr, cache |-> cache, hit |-> TRUE]
  ELSE LET idf == IDFValue(freqs, term, size)
       IN  [val |-> idf, err |-> NoErr, cache |-> CacheStore(cache, term, idf),
            hit |-> FALSE]

IDF(term) ==
  /\ pc = "ready"
  /\ LET r == IDFResult(idfCache, termFreqs, corpusSize, term)
     IN  /\ ret' = [op |-> "IDF", arg |-> term, val |-> r.val, err |-> r.err,
                    errIndex |-> -1, hit |-> r.hit]
         /\ idfCache' = r.cache
  /\ UNCHANGED << corpusArg, tokenizerArg, pc, corpus, corpusSize, avgDocLen,
                  docLengths, termFreqs, shared >>

(***************************************************************************)
(* Bm25Base's scoring methods: each returns nil and "not implemented"      *)
(***************************************************************************)
\* the queries a caller passes: [], ["a"], ["a","c"], ["a",""]
Queries ==
  { <<>>, << <<"a">> >>, << <<"a">>, <<"c">> >>, << <<"a">>, <<>> >> }

\* the docIDs a caller passes to GetBatchScores: [], [0,1], [-1,2]
DocIDLists == { <<>>, <<0, 1>>, <<-1, 2>> }

\* the n a caller passes to GetTopN
TopNs == {0, 1, 3}

\* return nil, errors.New("not implemented")
GetScores(query) ==
  /\ pc = "ready"
  /\ ret' = Return("GetScores", query, Nil, ErrNotImplemented)
  /\ UNCHANGED << corpusArg, tokenizerArg, pc, fields, shared >>

\* return nil, errors.New("not implemented")
GetBatchScores(query, docIDs) ==
  /\ pc = "ready"
  /\ ret' = Return("GetBatchScores", <<query, docIDs>>, Nil, ErrNotImplemented)
  /\ UNCHANGED << corpusArg, tokenizerArg, pc, fields, shared >>

\* return nil, errors.New("not implemented")
GetTopN(query, n) ==
  /\ pc = "ready"
  /\ ret' = Return("GetTopN", <<query, n>>, Nil, ErrNotImplemented)
  /\ UNCHANGED << corpusArg, tokenizerArg, pc, fields, shared >>

(***************************************************************************)
(* Specifications                                                          *)
(***************************************************************************)
\* the operations of Bm25Base
Next ==
  \/ NewBM25Base
  \/ CorpusSize
  \/ AvgDocLen
  \/ DocLengths
  \/ \E term \in QueryTerms : IDF(term)
  \/ \E query \in Queries : GetScores(query)
  \/ \E query \in Queries, docIDs \in DocIDLists : GetBatchScores(query, docIDs)
  \/ \E query \in Queries, n \in TopNs : GetTopN(query, n)

Spec == Init /\ [][Next]_vars

(***************************************************************************)
(* A caller that writes through the slice DocLengths() returned            *)
(***************************************************************************)
\* the values a caller writes
WriteValues == {0, 9}

\* d := b.DocLengths(); d[i] = v   (i is 0-based in the code, 1-based here)
CallerOverwrite(i, v) ==
  /\ pc = "ready"
  /\ shared
  /\ i \in 1..Len(docLengths)
  /\ docLengths' = [docLengths EXCEPT ![i] = v]
  /\ ret' = IF ret.op = "DocLengths" THEN [ret EXCEPT !.val = docLengths'] ELSE ret
  /\ UNCHANGED << corpusArg, tokenizerArg, pc, corpus, corpusSize, avgDocLen,
                  termFreqs, idfCache, shared >>

NextAlias ==
  \/ Next
  \/ \E i \in 1..MaxCorpus, v \in WriteValues : CallerOverwrite(i, v)

\* Bm25Base with a caller that keeps and writes the slices it is handed
SpecAlias == Init /\ [][NextAlias]_vars

(***************************************************************************)
(* What the claims speak of, computed from the arguments of construction   *)
(***************************************************************************)
\* the tokens the tokenizer returns for document i (1-based here)
TokensOf(i) == Tokenize(tokenizerArg, corpusArg[i])

TokenSetOf(i) == { TokensOf(i)[k] : k \in 1..Len(TokensOf(i)) }

\* the documents that tokenize to nothing
EmptyDocs ==
  IF tokenizerArg = "nil" THEN {}
  ELSE { i \in 1..Len(corpusArg) : Len(TokensOf(i)) = 0 }

\* the number of distinct documents that contain term t
DocFreq(t) == Cardinality({ i \in 1..Len(corpusArg) : t \in TokenSetOf(i) })

CorpusTerms == UNION { TokenSetOf(i) : i \in 1..Len(corpusArg) }

NoIndex ==
  /\ corpus = <<>> /\ corpusSize = 0 /\ docLengths = <<>>
  /\ termFreqs = EmptyMap /\ idfCache = EmptyMap

\* a/b = c/d, for b, d > 0
SameRatio(v, num, den) == v.num * den = num * v.den

(***************************************************************************)
(* C1                                                                      *)
(***************************************************************************)
\* C1: NewBM25Base returns an error and no index exactly when the corpus is
\* empty, the tokenizer is nil, or some document tokenizes to zero tokens; in
\* the zero-token case the error names the lowest offending document index;
\* in every other case construction succeeds.
C1_ConstructionErrors ==
  pc # "new" =>
    LET mustFail == Len(corpusArg) = 0 \/ tokenizerArg = "nil" \/ EmptyDocs # {}
    IN  /\ (pc = "failed") <=> mustFail
        /\ (pc = "ready") <=> ~mustFail
        /\ pc = "failed" =>
             /\ ret.op = "NewBM25Base" /\ ret.err # NoErr /\ ret.val = Nil
             /\ NoIndex
             /\ (Len(corpusArg) # 0 /\ tokenizerArg # "nil") =>
                  /\ ret.err = ErrEmptyTokens
                  /\ ret.errIndex = Lowest(EmptyDocs) - 1
             /\ ret.err = ErrEmptyTokens =>
                  (Len(corpusArg) # 0 /\ tokenizerArg # "nil" /\ EmptyDocs # {})
        /\ (pc = "ready" /\ ret.op = "NewBM25Base") =>
             (ret.err = NoErr /\ ret.val # Nil)

\* the second document is the first to tokenize to nothing
C1_Witness ==
  /\ pc = "failed"
  /\ ret.op = "NewBM25Base"
  /\ ret.err = ErrEmptyTokens
  /\ ret.errIndex = 1
  /\ Len(corpusArg) = 2

(***************************************************************************)
(* C2                                                                      *)
(***************************************************************************)
\* C2: on a constructed index, after any operations, CorpusSize() is the
\* number of documents supplied, is positive and is the length of
\* DocLengths(), whose entry i is the number of tokens of document i.
C2_SizeAndLengths ==
  pc = "ready" =>
    /\ corpusSize = Len(corpusArg)
    /\ corpusSize > 0
    /\ Len(docLengths) = corpusSize
    /\ Len(corpus) = corpusSize
    /\ \A i \in 1..Len(corpusArg) : docLengths[i] = Len(TokensOf(i))
    /\ ret.op = "CorpusSize" => (ret.val = Len(corpusArg) /\ ret.val > 0)
    /\ ret.op = "DocLengths" =>
         /\ Len(ret.val) = Len(corpusArg)
         /\ \A i \in 1..Len(corpusArg) : ret.val[i] = Len(TokensOf(i))

\* DocLengths() was called after IDF calls, on documents of different lengths
\* one of which repeats a term
C2_Witness ==
  /\ pc = "ready"
  /\ ret.op = "DocLengths"
  /\ ret.val = <<2, 1>>
  /\ corpusArg[1] = <<"a", " ", "a">>
  /\ DOMAIN idfCache # {}

(***************************************************************************)
(* C3                                                                      *)
(***************************************************************************)
\* C3: after construction the stored document frequency of every term is the
\* number of distinct documents containing it (a term repeated in a document
\* counts once), so it lies between 0 and corpusSize.
C3_DocumentFrequency ==
  pc = "ready" =>
    /\ DOMAIN termFreqs = CorpusTerms
    /\ \A t \in DOMAIN termFreqs :
         /\ termFreqs[t] = DocFreq(t)
         /\ 0 <= termFreqs[t] /\ termFreqs[t] <= corpusSize

\* "a" occurs twice in the first document and once in the second
C3_Witness ==
  /\ pc = "ready"
  /\ corpusArg = << <<"a", " ", "a">>, <<"a", " ", "b">> >>
  /\ termFreqs[<<"a">>] = 2
  /\ termFreqs[<<"b">>] = 1

(***************************************************************************)
(* C4                                                                      *)
(***************************************************************************)
\* a step that is a call IDF("")
IsIDFStepOfEmptyTerm == ret'.op = "IDF" /\ ret'.arg = <<>>

\* C4: IDF("") fails with the EmptyTerm error in every reachable state of the
\* index, and the failing call adds nothing to the IDF cache and changes no
\* other field.
C4_EmptyTermFails ==
  /\ [](pc = "ready" =>
          LET r == IDFResult(idfCache, termFreqs, corpusSize, <<>>)
          IN  r.err = ErrEmptyTerm /\ r.cache = idfCache)
  /\ [][IsIDFStepOfEmptyTerm =>
          /\ ret'.err = ErrEmptyTerm
          /\ idfCache' = idfCache
          /\ UNCHANGED << pc, corpus, corpusSize, avgDocLen, docLengths, termFreqs >>]_vars

\* IDF("") failed on an index whose corpus contains the empty token, after
\* other terms were cached
C4_Witness ==
  /\ pc = "ready"
  /\ ret.op = "IDF" /\ ret.arg = <<>> /\ ret.err = ErrEmptyTerm
  /\ <<>> \in DOMAIN termFreqs
  /\ <<>> \notin DOMAIN idfCache
  /\ Cardinality(DOMAIN idfCache) >= 2

(***************************************************************************)
(* C5                                                                      *)
(***************************************************************************)
\* C5: for a non-empty term that occurs in no document, IDF returns exactly
\* 0.0 and no error, on the first call (a miss) and on every later one (a
\* hit), whatever other terms were asked for in between.
C5_AbsentTermIsZero ==
  pc = "ready" =>
    /\ \A t \in QueryTerms \ {<<>>} :
         DocFreq(t) = 0 =>
           LET r == IDFResult(idfCache, termFreqs, corpusSize, t)
           IN  r.val = Zero /\ r.err = NoErr
    /\ (ret.op = "IDF" /\ ret.arg # <<>> /\ DocFreq(ret.arg) = 0) =>
         (ret.val = Zero /\ ret.err = NoErr)

\* a later call for an absent term, answered from the cache, with corpus terms
\* cached in between
C5_Witness ==
  /\ pc = "ready"
  /\ ret.op = "IDF" /\ ret.arg = <<"c">> /\ ret.hit
  /\ ret.val = Zero /\ ret.err = NoErr
  /\ DocFreq(<<"c">>) = 0
  /\ \E t \in DOMAIN idfCache : DocFreq(t) > 0

(***************************************************************************)
(* C9                                                                      *)
(***************************************************************************)
IsIDFStep == ret'.op = "IDF"

\* C9: over IDF calls the cache only grows: a successful IDF(term) leaves term
\* cached with the value returned, adds no other key, never removes or changes
\* an entry (a repeated call returns the first call's value), and leaves the
\* documents, lengths, document frequencies, corpusSize and avgDocLen alone.
C9_CacheOnlyGrows ==
  [][IsIDFStep =>
       /\ UNCHANGED << corpus, corpusSize, avgDocLen, docLengths, termFreqs >>
       /\ \A t \in DOMAIN idfCache :
            t \in DOMAIN idfCache' /\ idfCache'[t] = idfCache[t]
       /\ DOMAIN idfCache' \subseteq DOMAIN idfCache \cup {ret'.arg}
       /\ ret'.err = NoErr =>
            /\ ret'.arg \in DOMAIN idfCache'
            /\ idfCache'[ret'.arg] = ret'.val
            /\ ret'.arg \in DOMAIN idfCache => ret'.val = idfCache[ret'.arg]
       /\ ret'.err # NoErr => idfCache' = idfCache]_vars

\* a repeated call answered from a cache of three terms
C9_Witness ==
  /\ pc = "ready"
  /\ ret.op = "IDF" /\ ret.err = NoErr /\ ret.hit
  /\ Cardinality(DOMAIN idfCache) = 3
  /\ idfCache[ret.arg] = ret.val
  /\ ~IsZero(ret.val)

(***************************************************************************)
(* C10                                                                     *)
(***************************************************************************)
\* the IDF the claim gives for a corpus term of document frequency df
ClaimedSign(v, df, size) ==
  /\ (0 < df /\ df < size) =>
       /\ SameRatio(v, (2 * (size - df) + 1) + (2 * df + 1), 2 * df + 1)
       /\ IsPositive(v)
  /\ df = size =>
       /\ SameRatio(v, 1, 2 * df + 1)
       /\ IsNegative(v)

\* what the claim says of the terms of T, on an index that is built: IDF
\* returns, without error, the value of the claimed formula and sign, whether
\* it is computed or comes from the cache
SignHoldsFor(T) ==
  pc = "ready" =>
    /\ \A t \in T :
         LET r == IDFResult(idfCache, termFreqs, corpusSize, t)
         IN  /\ r.err = NoErr
             /\ ClaimedSign(r.val, DocFreq(t), Len(corpusArg))
    /\ (ret.op = "IDF" /\ ret.arg \in T) =>
         /\ ret.err = NoErr
         /\ ClaimedSign(ret.val, DocFreq(ret.arg), Len(corpusArg))

\* C10 as stated: for every term of the corpus, with df its document
\* frequency: when 0 < df < corpusSize, IDF is
\* ln((corpusSize - df + 0.5)/(df + 0.5) + 1.0), strictly positive; when
\* df = corpusSize it is ln(0.5/(df + 0.5)), strictly negative (every corpus
\* term of a one-document corpus included).
C10_SignOfIDFEveryTerm == SignHoldsFor(CorpusTerms)

\* C10, amended: the same for every non-empty term of the corpus.  (The empty
\* string is a term of the corpus when the tokenizer returns it, and IDF("")
\* fails with EmptyTerm.)
C10_SignOfIDF == SignHoldsFor(CorpusTerms \ {<<>>})

\* one cached term is in one of two documents (positive IDF), another in both
\* (negative IDF)
C10_Witness ==
  /\ pc = "ready"
  /\ Len(corpusArg) = 2
  /\ <<"a">> \in DOMAIN idfCache /\ <<"b">> \in DOMAIN idfCache
  /\ DocFreq(<<"a">>) = 2 /\ IsNegative(idfCache[<<"a">>])
  /\ DocFreq(<<"b">>) = 1 /\ IsPositive(idfCache[<<"b">>])

(***************************************************************************)
(* C6                                                                      *)
(***************************************************************************)
\* the errors the specification names for the scoring operations; bm25.go
\* declares no such errors
ErrEmptyQuery == "EmptyQuery"
ErrInvalidN == "InvalidN"

\* C6: GetScores fails with EmptyQuery on an empty query; on a non-empty query
\* it returns, without error, a sequence of CorpusSize() scores, one per
\* document.
C6_GetScores ==
  (pc = "ready" /\ ret.op = "GetScores") =>
    IF Len(ret.arg) = 0
    THEN ret.err = ErrEmptyQuery
    ELSE /\ ret.err = NoErr
         /\ ret.val # Nil
         /\ Len(ret.val) = corpusSize

(***************************************************************************)
(* C7                                                                      *)
(***************************************************************************)
\* C7: GetTopN(query, n) fails with EmptyQuery for an empty query and with
\* InvalidN for n <= 0; with a non-empty query and n > 0 it returns, without
\* error, the original text of min(n, CorpusSize()) documents.  (The order
\* claimed is by the documents' scores, and the code computes no score the
\* order could be stated against.)
C7_GetTopN ==
  (pc = "ready" /\ ret.op = "GetTopN") =>
    LET query == ret.arg[1]
        n == ret.arg[2]
    IN  IF Len(query) = 0 \/ n <= 0
        THEN /\ ret.err \in {ErrEmptyQuery, ErrInvalidN}
             /\ (Len(query) = 0 /\ n > 0) => ret.err = ErrEmptyQuery
             /\ (Len(query) > 0 /\ n <= 0) => ret.err = ErrInvalidN
        ELSE /\ ret.err = NoErr
             /\ ret.val # Nil
             /\ Len(ret.val) = (IF n <= corpusSize THEN n ELSE corpusSize)
             /\ \A k \in 1..Len(ret.val) :
                  \E d \in 1..Len(corpusArg) : ret.val[k] = corpusArg[d]

(***************************************************************************)
(* C8                                                                      *)
(***************************************************************************)
\* C8: what DocLengths() returns is a copy or read-only view: whatever a caller
\* wrote into a sequence it got from DocLengths(), a DocLengths() call returns
\* (the field docLengths holds) the lengths recorded at construction.
C8_DocLengthsUnaffectedByCaller ==
  pc = "ready" =>
    docLengths = [i \in 1..Len(corpusArg) |-> Len(TokensOf(i))]
====
